---- MODULE Spec2Model ----
(***************************************************************************)
(* Energy_Relaxation: relaxation of a 1D chain of magnetic moments         *)
(* (src/src/magnetic_moments.rs, driven by src/src/main.rs).               *)
(*                                                                         *)
(* Numbers.  The program computes in f64.  The model computes in fixed     *)
(* point, each quantity in a quantum of its own, and rounds to nearest     *)
(* where f64 rounds:                                                       *)
(*   moment component   1/SCALE                                            *)
(*   field component    (Ku/(Ms*mu0))/SCALE        = 22338 A/m / SCALE     *)
(*                      (a moment component m is the field m * 22338 A/m)  *)
(*   change component   alpha*gamma*Ms field quanta = 1.4e20 moment quanta *)
(* NaN (0.0/0.0) is a value of its own and propagates as in IEEE 754.      *)
(* Sites are numbered 1..size here and 0..size-1 in the source.            *)
(***************************************************************************)
EXTENDS Integers, Sequences, FiniteSets, TLC

\* ------------------------------------------------------------ bounds
\* Largest chain the model constructs.
MaxN == 3

\* ------------------------------------------------------------ f64
\* Moment components are multiples of 1/SCALE.
SCALE == 10

\* The f64 NaN.
NaN == 2000000000

IsNaN(x) == x = NaN

FNeg(x) == IF IsNaN(x) THEN NaN ELSE 0 - x

FAbs(x) == IF IsNaN(x) THEN NaN ELSE IF x < 0 THEN 0 - x ELSE x

FAdd(x, y) == IF IsNaN(x) \/ IsNaN(y) THEN NaN ELSE x + y

FSub(x, y) == IF IsNaN(x) \/ IsNaN(y) THEN NaN ELSE x - y

FMul(x, y) == IF IsNaN(x) \/ IsNaN(y) THEN NaN ELSE x * y

\* f64::max: "if one of the arguments is NaN, then the other argument is returned".
FMax(x, y) == IF IsNaN(x) THEN y ELSE IF IsNaN(y) THEN x ELSE IF x < y THEN y ELSE x

\* x < y on f64: false when either side is NaN.
FLess(x, y) == ~IsNaN(x) /\ ~IsNaN(y) /\ x < y

\* a / b rounded to nearest, b > 0.
RoundDiv(a, b) ==
    IF a >= 0 THEN (2 * a + b) \div (2 * b) ELSE 0 - ((2 * (0 - a) + b) \div (2 * b))

\* The largest r with r*r <= n, by Newton's iteration from r >= sqrt(n), n > 0.
RECURSIVE SqrtFloor(_, _)
SqrtFloor(n, r) ==
    LET q == (r + n \div r) \div 2
    IN  IF q >= r THEN r ELSE SqrtFloor(n, q)

\* f64::sqrt, rounded to nearest.
FSqrt(x) ==
    IF IsNaN(x) THEN NaN
    ELSE LET r == IF x = 0 THEN 0 ELSE SqrtFloor(x, 46340)
         IN  IF x - r * r > r THEN r + 1 ELSE r

\* ------------------------------------------------------------ Array1<f64>
VAdd(u, v) == <<FAdd(u[1], v[1]), FAdd(u[2], v[2]), FAdd(u[3], v[3])>>

VSub(u, v) == <<FSub(u[1], v[1]), FSub(u[2], v[2]), FSub(u[3], v[3])>>

VScale(c, v) == <<FMul(c, v[1]), FMul(c, v[2]), FMul(c, v[3])>>

Dot(u, v) == FAdd(FAdd(FMul(u[1], v[1]), FMul(u[2], v[2])), FMul(u[3], v[3]))

VecIsNaN(v) == \E k \in 1..3 : IsNaN(v[k])

\* One component of `v /= norm`, the quotient in moment quanta (1/SCALE).
\* 0.0/0.0 is NaN; a non-zero component has a non-zero norm.
DivByNorm(x, norm) ==
    IF IsNaN(x) \/ IsNaN(norm) THEN NaN
    ELSE IF norm = 0 THEN NaN
    ELSE RoundDiv(x * SCALE, norm)

\* Mutant: a norm that is NaN is caught and the moment reset to the easy axis
\* (a zero norm is not caught).
NormalizeResetNaN(v) ==
    LET norm == FSqrt(Dot(v, v))
    IN  IF IsNaN(norm) THEN <<SCALE, 0, 0>>
        ELSE <<DivByNorm(v[1], norm), DivByNorm(v[2], norm), DivByNorm(v[3], norm)>>

\* let norm = v.dot(&v).sqrt() is 0.0: v is the zero vector (no NaN in it).
ZeroNorm(v) == FSqrt(Dot(v, v)) = 0

\* let norm = v.dot(&v).sqrt(); v /= norm;
Normalize(v) ==
    LET norm == FSqrt(Dot(v, v))
    IN  <<DivByNorm(v[1], norm), DivByNorm(v[2], norm), DivByNorm(v[3], norm)>>

\* ------------------------------------------------------------ constants
\* 2*A/(Ms*mu0*dx^2) = 1.9546e7 A/m, in units of Ku/(Ms*mu0) = 22338 A/m.
EXCHANGE_FIELD == 875

\* 2*Ku/(Ms*mu0) = 44676 A/m, in units of 22338 A/m.
ANISOTROPY_FIELD == 2

EASY_AXIS == <<1, 0, 0>>

\* EXTERNAL_FIELD/mu0 = (0, 0, 397887 A/m) = (0, 0, 285/16) in units of
\* 22338 A/m, in field quanta.
ZEEMAN_FIELD == <<0, 0, RoundDiv(285 * SCALE, 16)>>

MAX_ITERATIONS_NUMBER == 10000

\* 1e-6, in change quanta rounded up: the smallest positive change the model
\* represents is 1.4e20/SCALE, so a change is below 1e-6 iff it is 0.
TOLERANCE == 1

\* ------------------------------------------------------------ new
\* The vectors rand draws in new, before normalisation, in units of 1/100:
\* (0,0,0), the draw whose norm is zero, the easy axis and the field direction.
Draws ==
    { <<0, 0, 0>>, <<100, 0, 0>>, <<0, 0, 100>> }

\* MicromagneticSystem::new, with the draws of rng.random_range made explicit.
new(n, draws) == [i \in 1..n |-> Normalize(draws[i])]

\* ------------------------------------------------------------ effective field
ZeroField(n) == [i \in 1..n |-> <<0, 0, 0>>]

\* Mutant: the centre taken once, m[i+1] - m[i] + m[i-1].
LaplacianSingleCentre(ms, i) == VAdd(VSub(ms[i + 1], ms[i]), ms[i - 1])

\* m[i+1] - 2.0*m[i] + m[i-1]
Laplacian(ms, i) == VAdd(VSub(ms[i + 1], VScale(2, ms[i])), ms[i - 1])

\* Mutant: the stencil applied at every site, the missing neighbour of an end
\* site taken to be the end site itself.
ExchangeLoopEverySite(ms, h) ==
    [i \in 1..Len(ms) |->
        LET left == IF i = 1 THEN ms[i] ELSE ms[i - 1]
            right == IF i = Len(ms) THEN ms[i] ELSE ms[i + 1]
        IN  VAdd(h[i], VScale(EXCHANGE_FIELD,
                              VAdd(VSub(right, VScale(2, ms[i])), left)))]

\* for i in 1..(size - 1): the interior sites, 2..n-1 here.
ExchangeLoop(ms, h) ==
    [i \in 1..Len(ms) |->
        IF 2 <= i /\ i <= Len(ms) - 1
        THEN VAdd(h[i], VScale(EXCHANGE_FIELD, Laplacian(ms, i)))
        ELSE h[i]]

\* for i in 0..size: h_eff[i] += 2 Ku (m.e)/(Ms mu0) * e
AnisotropyLoop(ms, h) ==
    [i \in 1..Len(ms) |->
        VAdd(h[i], VScale(FMul(ANISOTROPY_FIELD, Dot(ms[i], EASY_AXIS)), EASY_AXIS))]

\* for i in 0..size: h_eff[i] += EXTERNAL_FIELD / mu0
ZeemanLoop(ms, h) ==
    [i \in 1..Len(ms) |-> VAdd(h[i], ZEEMAN_FIELD)]

compute_effective_field(ms) ==
    ZeemanLoop(ms, AnisotropyLoop(ms, ExchangeLoop(ms, ZeroField(Len(ms)))))

\* ------------------------------------------------------------ relaxation step
\* -DAMPING_CONSTANT * GILBERT_GYROMAGNETIC_RATIO * h * SATURATION_MAGNETIZATION,
\* in change quanta: the three positive factors are the quantum.
ChangeOfMagnetization(h) == <<FNeg(h[1]), FNeg(h[2]), FNeg(h[3])>>

\* change.iter().map(|&x| x.abs()).fold(0.0, f64::max)
FoldAbsMax(change) == FMax(FMax(FMax(0, FAbs(change[1])), FAbs(change[2])), FAbs(change[3]))

\* A moment component as an addend of a change: one moment quantum is 7e-21
\* change quanta, below the rounding of the sum, so a finite component adds 0.
AsChange(x) == IF IsNaN(x) THEN NaN ELSE 0

\* &self.magnetizations[i] + &change_of_magnetization
Updated(m, change) ==
    << FAdd(AsChange(m[1]), change[1]),
       FAdd(AsChange(m[2]), change[2]),
       FAdd(AsChange(m[3]), change[3]) >>

\* The body of `for i in 0..self.size`, from site i on: h_eff was computed before
\* the loop, ms is updated in place.
RECURSIVE RelaxLoop(_, _, _, _)
RelaxLoop(ms, h_eff, i, max_change) ==
    IF i > Len(ms) THEN [magnetizations |-> ms, max_change |-> max_change]
    ELSE LET change == ChangeOfMagnetization(h_eff[i])
         IN  RelaxLoop([ms EXCEPT ![i] = Normalize(Updated(ms[i], change))],
                       h_eff, i + 1, FMax(max_change, FoldAbsMax(change)))

\* Mutant: the field of site i computed inside the loop, from the array as the
\* loop has updated it so far (a Gauss-Seidel sweep).
RECURSIVE RelaxLoopInPlace(_, _, _)
RelaxLoopInPlace(ms, i, max_change) ==
    IF i > Len(ms) THEN [magnetizations |-> ms, max_change |-> max_change]
    ELSE LET change == ChangeOfMagnetization(compute_effective_field(ms)[i])
         IN  RelaxLoopInPlace([ms EXCEPT ![i] = Normalize(Updated(ms[i], change))],
                              i + 1, FMax(max_change, FoldAbsMax(change)))

relaxation_step_in_place(ms) == RelaxLoopInPlace(ms, 1, 0)

relaxation_step(ms) == RelaxLoop(ms, compute_effective_field(ms), 1, 0)

\* ------------------------------------------------------------ the program
VARIABLES
    size,            \* MicromagneticSystem.size
    magnetizations,  \* MicromagneticSystem.magnetizations
    pc,              \* "minimize": in minimize_energy; "returned"; "tested";
                     \* "fresh", "stepped", "stepped_twice" in the step runs
    iter,            \* the loop variable of minimize_energy
    max_change,      \* what the latest relaxation_step returned
    outcome,         \* "Running", "Converged", "MaxIterationsReached"
    steps,           \* history: relaxation steps performed so far
    first_below,     \* history: the first step that returned < TOLERANCE, or 0
    prev,            \* history: the moment array before the latest step
    aligned_start,   \* history: new built a uniform array along the easy axis
                     \* or along the external field
    snapshot,        \* what the caller's latest get_magnetizations returned
    printed,         \* the lines the latest print_magnetizations wrote
    zero_norm        \* history: some `v /= norm` has divided by a norm of 0.0

vars ==
    << size, magnetizations, pc, iter, max_change, outcome, steps, first_below,
       prev, aligned_start, snapshot, printed, zero_norm >>

\* All moments equal and along the easy axis, or all along the external field.
Aligned(ms) ==
    \/ \A i \in 1..Len(ms) : ms[i] = <<SCALE, 0, 0>>
    \/ \A i \in 1..Len(ms) : ms[i] = <<0, 0, SCALE>>

\* The system new(n) returns, for the draws in D, before any step.
Constructed(D, at) ==
    /\ size \in 1..MaxN
    /\ \E draws \in [1..size -> D] :
           /\ magnetizations = new(size, draws)
           /\ zero_norm = \E i \in 1..size : ZeroNorm(draws[i])
    /\ pc = at
    /\ iter = 0
    /\ max_change = 0
    /\ outcome = "Running"
    /\ steps = 0
    /\ first_below = 0
    /\ prev = magnetizations
    /\ aligned_start = Aligned(magnetizations)
    /\ snapshot = << >>
    /\ printed = << >>

\* let mut system = MicromagneticSystem::new(n); system.minimize_energy() is entered.
Init == Constructed(Draws, "minimize")

\* Mutant: the range taken inclusive, 0..=MAX_ITERATIONS_NUMBER.
InLoopInclusive(it) == it <= MAX_ITERATIONS_NUMBER

\* for iter in 0..MAX_ITERATIONS_NUMBER
InLoop(it) == it < MAX_ITERATIONS_NUMBER

\* Some site's updated moment, before `updated_magnetization /= norm`, has
\* norm 0.0; the field is the one relaxation_step computes before its loop.
DegenerateStep(ms) ==
    LET h_eff == compute_effective_field(ms)
    IN  \E i \in 1..Len(ms) :
            ZeroNorm(Updated(ms[i], ChangeOfMagnetization(h_eff[i])))

\* The moment array, the returned value and the history after a step that
\* returned r.
Stepped(r) ==
    /\ zero_norm' = (zero_norm \/ DegenerateStep(magnetizations))
    /\ prev' = magnetizations
    /\ magnetizations' = r.magnetizations
    /\ max_change' = r.max_change
    /\ steps' = steps + 1
    /\ first_below' = IF first_below = 0 /\ FLess(r.max_change, TOLERANCE)
                      THEN steps + 1 ELSE first_below

\* An iteration whose step returns max_change >= TOLERANCE.
Iterate ==
    /\ pc = "minimize"
    /\ InLoop(iter)
    /\ \E r \in {relaxation_step(magnetizations)} :
           /\ ~FLess(r.max_change, TOLERANCE)
           /\ Stepped(r)
    /\ iter' = iter + 1
    /\ UNCHANGED <<size, pc, outcome, aligned_start, snapshot, printed>>

\* Mutant: "Converged" is printed and the loop goes on (the return is missing).
ConvergeWithoutReturn ==
    /\ pc = "minimize"
    /\ InLoop(iter)
    /\ \E r \in {relaxation_step(magnetizations)} :
           /\ FLess(r.max_change, TOLERANCE)
           /\ Stepped(r)
    /\ iter' = iter + 1
    /\ UNCHANGED <<size, pc, outcome, aligned_start, snapshot, printed>>

\* An iteration whose step returns max_change < TOLERANCE: "Converged", return.
Converge ==
    /\ pc = "minimize"
    /\ InLoop(iter)
    /\ \E r \in {relaxation_step(magnetizations)} :
           /\ FLess(r.max_change, TOLERANCE)
           /\ Stepped(r)
    /\ pc' = "returned"
    /\ outcome' = "Converged"
    /\ UNCHANGED <<size, iter, aligned_start, snapshot, printed>>

\* The loop is exhausted: "Warning: Did not converge", return.
Exhaust ==
    /\ pc = "minimize"
    /\ ~InLoop(iter)
    /\ pc' = "returned"
    /\ outcome' = "MaxIterationsReached"
    /\ UNCHANGED <<size, magnetizations, iter, max_change, steps, first_below,
                   prev, aligned_start, snapshot, printed, zero_norm>>

\* tests::test_minimize_energy: one more relaxation_step after minimize_energy.
TestStep ==
    /\ pc = "returned"
    /\ \E r \in {relaxation_step(magnetizations)} : Stepped(r)
    /\ pc' = "tested"
    /\ UNCHANGED <<size, iter, outcome, aligned_start, snapshot, printed>>

\* Mutant: the clone leaves out the two end sites.
get_magnetizations_interior(ms) == SubSeq(ms, 2, Len(ms) - 1)

\* self.magnetizations.clone(): the vectors, in site order.
get_magnetizations(ms) == ms

\* The lines "Cell {i}: m = {m}" of print_magnetizations, as (i, m), i from 0.
print_magnetizations(ms) == [j \in 1..Len(ms) |-> <<j - 1, ms[j]>>]

\* The system is between two calls of its caller (not inside minimize_energy).
Idle == pc # "minimize"

\* let magnetizations = system.get_magnetizations();
GetMagnetizations ==
    /\ Idle
    /\ snapshot' = get_magnetizations(magnetizations)
    /\ UNCHANGED <<size, magnetizations, pc, iter, max_change, outcome, steps,
                   first_below, prev, aligned_start, printed, zero_norm>>

\* system.print_magnetizations();
PrintMagnetizations ==
    /\ Idle
    /\ printed' = print_magnetizations(magnetizations)
    /\ UNCHANGED <<size, magnetizations, pc, iter, max_change, outcome, steps,
                   first_below, prev, aligned_start, snapshot, zero_norm>>

Next ==
    Iterate \/ Converge \/ Exhaust \/ TestStep \/ GetMagnetizations
        \/ PrintMagnetizations

Spec == Init /\ [][Next]_vars

\* ------------------------------------------------------------ single steps
\* The draws of the step runs: those of Draws, and draws next to the easy axis,
\* against the field, off both axes.
StepDraws ==
    Draws \cup { <<100, 10, 0>>, <<100, -10, 0>>, <<100, 50, 0>>, <<0, 0, -100>>,
                 <<60, 0, 80>>, <<0, 100, 0>> }

\* tests::test_relaxation_step: a system as new returns it.
InitStep == Constructed(StepDraws, "fresh")

\* let max_change = system.relaxation_step();
RelaxOnce ==
    /\ pc = "fresh"
    /\ \E r \in {relaxation_step(magnetizations)} : Stepped(r)
    /\ pc' = "stepped"
    /\ UNCHANGED <<size, iter, outcome, aligned_start, snapshot, printed>>

\* The next relaxation_step on the same system.
RelaxAgain ==
    /\ pc = "stepped"
    /\ \E r \in {relaxation_step(magnetizations)} : Stepped(r)
    /\ pc' = "stepped_twice"
    /\ UNCHANGED <<size, iter, outcome, aligned_start, snapshot, printed>>

NextStep == RelaxOnce \/ RelaxAgain \/ GetMagnetizations \/ PrintMagnetizations

SpecStep == InitStep /\ [][NextStep]_vars

\* ------------------------------------------------------------ claims
\* C1: for every size >= 1 and every array new can build, minimize_energy
\* terminates: it performs at most MAX_ITERATIONS_NUMBER relaxation steps and
\* then returns, without an error, as Converged or as MaxIterationsReached
\* and with the moment array (size vectors) still held by the system.
C1_Held ==
    /\ size >= 1
    /\ Len(magnetizations) = size
    /\ iter <= MAX_ITERATIONS_NUMBER
    /\ pc = "minimize" =>
          /\ outcome = "Running"
          /\ steps = iter
          /\ InLoop(iter) =>
                \E r \in {relaxation_step(magnetizations)} :
                    /\ Len(r.magnetizations) = size
                    /\ r.max_change \in Nat \ {NaN}
    /\ pc = "returned" =>
          /\ outcome \in {"Converged", "MaxIterationsReached"}
          /\ steps <= MAX_ITERATIONS_NUMBER
          /\ outcome = "Converged" => steps = iter + 1
          /\ outcome = "MaxIterationsReached" => steps = MAX_ITERATIONS_NUMBER

\* Inside minimize_energy every transition either returns or is one more step
\* of the at most MAX_ITERATIONS_NUMBER, and one of them is always possible.
C1_Progress ==
    pc = "minimize" =>
        \/ pc' = "returned" /\ outcome' # "Running"
        \/ pc' = "minimize" /\ iter' = iter + 1 /\ steps' = steps + 1

C1_Terminates == []C1_Held /\ [][C1_Progress]_vars

\* C1's case: both outcomes are taken, the second after all the steps.
C1_Witness_Converged == pc = "returned" /\ outcome = "Converged"

C1_Witness == pc = "returned" /\ outcome = "MaxIterationsReached" /\ size = MaxN

\* |v| is 1 to within one moment quantum; false of a NaN vector.
UnitNorm(v) ==
    /\ ~VecIsNaN(v)
    /\ (SCALE - 1) * (SCALE - 1) <= Dot(v, v)
    /\ Dot(v, v) <= (SCALE + 1) * (SCALE + 1)

\* C2: after new and after every relaxation_step of minimize_energy, whichever
\* way the run ends, every site's moment has Euclidean norm 1 within tolerance.
C2_Normalized ==
    pc \in {"minimize", "returned"} =>
        \A i \in 1..size : UnitNorm(magnetizations[i])

\* What the code keeps of C2: a moment that is not NaN has norm 1.
C2_FiniteNormalized ==
    \A i \in 1..size : VecIsNaN(magnetizations[i]) \/ UnitNorm(magnetizations[i])

\* C3: minimize_energy stops at the first relaxation step that returns
\* max_change < TOLERANCE: it executes no step after it, never undoes a step,
\* and reports MaxIterationsReached only if each of the MAX_ITERATIONS_NUMBER
\* steps returned max_change >= TOLERANCE.
C3_Stopped ==
    /\ first_below # 0 /\ pc \in {"minimize", "returned"} =>
          pc = "returned" /\ outcome = "Converged" /\ steps = first_below
    /\ outcome = "Converged" =>
          first_below # 0 /\ first_below = iter + 1
    /\ outcome = "MaxIterationsReached" =>
          iter = MAX_ITERATIONS_NUMBER /\ first_below \notin 1..MAX_ITERATIONS_NUMBER

\* The array changes only by a relaxation step applied to the array as it is,
\* and inside minimize_energy only while no step has returned < TOLERANCE.
C3_OnlySteps ==
    \/ UNCHANGED <<magnetizations, steps, max_change>>
    \/ /\ steps' = steps + 1
       /\ magnetizations' = relaxation_step(magnetizations).magnetizations
       /\ \/ pc = "minimize" /\ first_below = 0
          \/ pc = "returned" /\ pc' = "tested"

C3_StopsAtFirst == []C3_Stopped /\ [][C3_OnlySteps]_vars

\* C3's case: the run stopped at the step that returned < TOLERANCE.
C3_Witness ==
    /\ pc = "returned"
    /\ outcome = "Converged"
    /\ steps = first_below
    /\ FLess(max_change, TOLERANCE)

C3_Witness_Exhausted ==
    pc = "returned" /\ outcome = "MaxIterationsReached" /\ steps = MAX_ITERATIONS_NUMBER

\* ------------------------------------------------------------ the field, site by site
\* The three terms of the effective field at site i of the array ms, each
\* written for the one site.
SiteExchange(ms, i) ==
    IF 1 < i /\ i < Len(ms)
    THEN << FMul(EXCHANGE_FIELD, FAdd(FSub(ms[i + 1][1], FMul(2, ms[i][1])), ms[i - 1][1])),
            FMul(EXCHANGE_FIELD, FAdd(FSub(ms[i + 1][2], FMul(2, ms[i][2])), ms[i - 1][2])),
            FMul(EXCHANGE_FIELD, FAdd(FSub(ms[i + 1][3], FMul(2, ms[i][3])), ms[i - 1][3])) >>
    ELSE <<0, 0, 0>>

SiteAnisotropy(m) ==
    LET p == FMul(ANISOTROPY_FIELD, Dot(m, EASY_AXIS))
    IN  <<FMul(p, EASY_AXIS[1]), FMul(p, EASY_AXIS[2]), FMul(p, EASY_AXIS[3])>>

SiteZeeman == <<0, 0, ZEEMAN_FIELD[3]>>

SiteField(ms, i) == VAdd(VAdd(SiteExchange(ms, i), SiteAnisotropy(ms[i])), SiteZeeman)

\* The moment of site i after a step that reads only the array `before`.
SiteAfter(before, i) ==
    Normalize(Updated(before[i], ChangeOfMagnetization(SiteField(before, i))))

Finite(ms) == \A i \in 1..Len(ms) : ~VecIsNaN(ms[i])

\* The moments new can return for the draws of the step runs.
StepMoments == { Normalize(d) : d \in StepDraws }

\* C4: a relaxation step is synchronous: the new moment of every site is
\* computed from the array as it was when the step began, never from a
\* neighbour the same step has already updated.
C4_Synchronous ==
    steps >= 1 => \A i \in 1..size : magnetizations[i] = SiteAfter(prev, i)

\* C4's case: a step on a chain with an interior site, where a sweep that reads
\* the sites it has already updated ends in another array.
C4_Witness ==
    /\ pc = "stepped"
    /\ size >= 3
    /\ Finite(prev)
    /\ prev[1] # magnetizations[1]
    /\ relaxation_step_in_place(prev).magnetizations # magnetizations

\* The changes of the latest step, site by site.
LatestChanges == [i \in 1..size |-> ChangeOfMagnetization(SiteField(prev, i))]

\* C5: the value relaxation_step returns is the largest absolute component of
\* the changes it applied: it is never negative, and it is zero only if every
\* change is exactly zero.
C5_MaxChange ==
    steps >= 1 =>
        /\ max_change >= 0
        /\ \E i \in 1..size : \E k \in 1..3 : FAbs(LatestChanges[i][k]) = max_change
        /\ \A i \in 1..size : \A k \in 1..3 : ~FLess(max_change, FAbs(LatestChanges[i][k]))
        /\ max_change = 0 => \A i \in 1..size : LatestChanges[i] = <<0, 0, 0>>

\* What the code keeps of C5: on an array without NaN the returned value is the
\* largest absolute component of the changes.
C5_FiniteMaxChange == Finite(prev) => C5_MaxChange

\* C6: on a chain of three or more sites the field at the two end sites is the
\* anisotropy term plus the Zeeman term, whatever the neighbouring moment is.
C6_At(ms) ==
    LET h == compute_effective_field(ms)
    IN  /\ h[1] = VAdd(SiteAnisotropy(ms[1]), SiteZeeman)
        /\ h[size] = VAdd(SiteAnisotropy(ms[size]), SiteZeeman)
        /\ \A v \in StepMoments :
              /\ compute_effective_field([ms EXCEPT ![2] = v])[1] = h[1]
              /\ compute_effective_field([ms EXCEPT ![size - 1] = v])[size] = h[size]

ExchangeAt(ms, i) == ExchangeLoop(ms, ZeroField(Len(ms)))[i]

\* m[i+1] + m[i-1] = 2*m[i], component by component.
SecondDifferenceZero(ms, i) ==
    \A k \in 1..3 :
        /\ ~IsNaN(ms[i - 1][k]) /\ ~IsNaN(ms[i][k]) /\ ~IsNaN(ms[i + 1][k])
        /\ ms[i + 1][k] + ms[i - 1][k] = 2 * ms[i][k]

C8_StaysConverged ==
    pc = "stepped_twice" /\ first_below = 1 => FLess(max_change, TOLERANCE)

\* C8's case: two steps in a row, the first of which returned < TOLERANCE.
C8_Witness ==
    pc = "stepped_twice" /\ first_below = 1 /\ steps = 2 /\ size = MaxN

\* C9: from an array with all moments equal and along the easy axis or along the
\* external field, minimize_energy ends Converged, not MaxIterationsReached.
C9_GroundStateConverges ==
    aligned_start /\ pc = "returned" => outcome = "Converged"

\* C10: after minimize_energy has returned, however it ended, one more
\* relaxation_step returns max_change < TOLERANCE.
C10_ConvergedAfterReturn ==
    pc = "tested" => FLess(max_change, TOLERANCE)

\* What the code does instead: on an array without NaN every step returns at
\* least the change the Zeeman field makes at an end site.
NeverBelowTolerance ==
    steps >= 1 /\ Finite(magnetizations) =>
        max_change >= ZEEMAN_FIELD[3] /\ ~FLess(max_change, TOLERANCE)

\* A stored component that is a number in [-1, 1]; false of NaN.
InUnitRange(x) == ~IsNaN(x) /\ -SCALE <= x /\ x <= SCALE

\* C11: after construction and after any number of relaxation steps, every
\* stored component of every moment is a finite number in [-1, 1], never NaN.
C11_ComponentsInRange ==
    \A i \in 1..Len(magnetizations) :
        \A k \in 1..3 : InUnitRange(magnetizations[i][k])

\* What the code keeps of C11: a component that is not NaN lies in [-1, 1].
C11_FiniteInRange ==
    \A i \in 1..Len(magnetizations) :
        \A k \in 1..3 :
            IsNaN(magnetizations[i][k]) \/ InUnitRange(magnetizations[i][k])

\* size is the length of the moment array, and every moment has 3 components.
C12_SizeIsLength ==
    /\ Len(magnetizations) = size
    /\ \A i \in 1..size : Len(magnetizations[i]) = 3

\* No call changes size; a get_magnetizations call returns size vectors of 3
\* components, the moments in site order, and changes nothing of the system;
\* a print_magnetizations call writes one line per site, in site order.
C12_Calls ==
    /\ size' = size
    /\ snapshot' # snapshot =>
          /\ Len(snapshot') = size
          /\ \A i \in 1..size :
                 Len(snapshot'[i]) = 3 /\ snapshot'[i] = magnetizations[i]
          /\ magnetizations' = magnetizations
    /\ printed' # printed =>
          /\ Len(printed') = size
          /\ \A i \in 1..size : printed'[i] = <<i - 1, magnetizations[i]>>
          /\ magnetizations' = magnetizations

\* C12: for a system constructed with new(N), after any sequence of
\* relaxation_step, minimize_energy, get_magnetizations and print calls, size is
\* still N and is the length of the moment array, and get_magnetizations
\* returns exactly N vectors of exactly 3 components each, in site order.
C12_SizeInvariant == []C12_SizeIsLength /\ [][C12_Calls]_vars

\* C12's case: the moments are read and printed after two relaxation steps
\* that changed them.
C12_Witness ==
    /\ pc = "stepped_twice"
    /\ size = MaxN
    /\ snapshot = magnetizations
    /\ Len(printed) = MaxN
    /\ magnetizations # prev

\* C12's case after minimize_energy: main reads the moments it then exports.
C12_Witness_Main ==
    pc = "returned" /\ size = MaxN /\ snapshot = magnetizations /\ printed # << >>

\* C13: a degenerate normalisation is fatal: when new draws the zero vector, or
\* a relaxation step's update makes a moment exactly the zero vector, the
\* operation signals an error instead of dividing by the zero norm, and no
\* non-finite component is stored in the moment array or returned by
\* get_magnetizations.
C13_DegenerateIsFatal ==
    /\ zero_norm => outcome = "Error"
    /\ Finite(magnetizations)
    /\ Finite(snapshot)

\* What the code does instead: it never signals an error, and a NaN is stored
\* exactly when a zero norm has been divided by.
C13_NaNFromZeroNorm ==
    /\ outcome \in {"Running", "Converged", "MaxIterationsReached"}
    /\ zero_norm <=> ~Finite(magnetizations)

\* With the repository's constants no update of a step is the zero vector of
\* the model's grid: the only zero norms are those of new.
C13_ZeroNormOnlyInNew == [][zero_norm' = zero_norm]_vars

====
